---- MODULE Spec2Model ----
(***************************************************************************)
(* The in-memory component cache of cache/component_cache.go.              *)
(*                                                                         *)
(* The cache keeps three structures of pointers to Component structs:      *)
(* componentsByID, childrenByParentID and allComponents.  Pointers are     *)
(* modelled as indices into `heap`, the sequence of the live Component     *)
(* structs, so that a struct shared by two pointers is one heap cell.      *)
(* `held` are the pointers a caller keeps after a call (ptrs) and the call  *)
(* they come from (from): the *Component it passed to Set, the snapshot    *)
(* the loader returned, the results of a read; `wrote` says that the       *)
(* caller wrote through one of them before letting them go.                *)
(* allComponentsNil says that the slice allComponents is nil, which Go      *)
(* tells apart from an empty slice.  GlobalComponentCache is "nil" until    *)
(* the first InitGlobalCache and "cache" afterwards; the three structures   *)
(* are those of the instance it points to.                                 *)
(*                                                                         *)
(* Concurrent callers are goroutines: pc is the line each one is at, call   *)
(* the call it is in, mu the sync.RWMutex of the instance the global       *)
(* points to.  serial is the cache that the writes would have built had    *)
(* each run alone, in the order in which they took mu.                     *)
(*                                                                         *)
(* db is storage: the rows of the table components and the sequence of     *)
(* its ids, written by the statements of store/component_store.go.  The    *)
(* request handlers of package api and the write path the cache is meant   *)
(* for act on it.                                                          *)
(*                                                                         *)
(* main is the process: pc the line of func main it is at ("exited" after  *)
(* log.Fatal), inits the calls of InitGlobalCache it made, initErr         *)
(* whether one of them failed, served the requests answered.               *)
(***************************************************************************)
EXTENDS Integers, Sequences, FiniteSets, TLC

\* Component ids are 1..MaxID.
MaxID == 3
\* ParentID.Int64 ranges over 0..MaxParent.
MaxParent == 1
\* A snapshot returned by ListComponents has at most MaxSnap rows.
MaxSnap == 2
RootParentIDKey == 0

\* The process is followed until it served MaxServed requests.
MaxServed == 2

\* At most MaxProcs goroutines call the cache at the same time.
MaxProcs == 2

VARIABLES heap, componentsByID, childrenByParentID, allComponents, held,
          allComponentsNil, GlobalComponentCache, mu, pc, call, serial, db, main

vars == <<heap, componentsByID, childrenByParentID, allComponents, held,
          allComponentsNil, GlobalComponentCache, mu, pc, call, serial, db, main>>

\* What the calls of one goroutine at a time leave alone.
concVars == <<mu, pc, call, serial>>

IDs == 1..MaxID

MaxKey == IF MaxID > MaxParent THEN MaxID ELSE MaxParent

\* The map keys the model looks at: RootParentIDKey, every id, every parent value.
Keys == 0..MaxKey

Payloads ==
    { [Name |-> "n1", Description |-> "d1", CreatedAt |-> "t1", UpdatedAt |-> "t1"],
      [Name |-> "n2", Description |-> "d2", CreatedAt |-> "t1", UpdatedAt |-> "t2"] }

\* sql.NullInt64 values: {n, true}, and {n, false} with an ignored numeric part.
NullInt64s ==
    { [Int64 |-> n, Valid |-> TRUE] : n \in 0..MaxParent }
        \cup { [Int64 |-> n, Valid |-> FALSE] : n \in {0, MaxParent} }

\* What rows.Scan produces for parent_id: NULL scans to {0, false}.
ScannedNullInt64s ==
    { [Int64 |-> n, Valid |-> TRUE] : n \in 0..MaxParent }
        \cup { [Int64 |-> 0, Valid |-> FALSE] }

Component(id, p, parentID) ==
    [ID |-> id, Name |-> p.Name, Description |-> p.Description,
     ParentID |-> parentID, CreatedAt |-> p.CreatedAt, UpdatedAt |-> p.UpdatedAt]

Components == { Component(id, p, par) : id \in IDs, p \in Payloads, par \in NullInt64s }

\* The rows of storage carry the payload of a row that was never updated
\* (created_at = updated_at); Set supplies every payload.
StoredPayloads == { p \in Payloads : p.CreatedAt = p.UpdatedAt }

ScannedComponents ==
    { Component(id, p, par) : id \in IDs, p \in StoredPayloads, par \in ScannedNullInt64s }

\* Snapshots of ListComponents: rows of a table whose id is a primary key.
Snapshots ==
    UNION { { s \in [1..n -> ScannedComponents] :
                \A i, j \in 1..n : i # j => s[i].ID # s[j].ID } : n \in 0..MaxSnap }

\* What a ComponentStoreInterface may return: any rows, ids repeated or not
\* (MockComponentStore returns the slice it was given).
AnySnapshots == UNION { [1..n -> ScannedComponents] : n \in 0..MaxSnap }

(***************************************************************************)
(* The state as one record, so that the operations compose.                *)
(***************************************************************************)
Cache ==
    [heap |-> heap, componentsByID |-> componentsByID,
     childrenByParentID |-> childrenByParentID,
     allComponents |-> allComponents, held |-> held,
     allComponentsNil |-> allComponentsNil]

\* The caller holds no pointer.
NoneHeld == [from |-> "none", ptrs |-> <<>>, wrote |-> FALSE]

\* make([]*models.Component, 0) is an empty slice that is not nil.
NewComponentCache ==
    [heap |-> <<>>, componentsByID |-> <<>>, childrenByParentID |-> <<>>,
     allComponents |-> <<>>, held |-> NoneHeld, allComponentsNil |-> FALSE]

\* A delete that leaves the map as it is.
MapDelete_Keep(m, k) == m

\* A map without key k (Go's delete(m, k)).
MapDelete(m, k) == [x \in (DOMAIN m) \ {k} |-> m[x]]

\* A map with m[k] = v (Go's m[k] = v).
MapPut(m, k, v) == [x \in (DOMAIN m) \cup {k} |-> IF x = k THEN v ELSE m[x]]

\* m[k] of a map of slices: the nil slice when k is no key.
MapGetSlice(m, k) == IF k \in DOMAIN m THEN m[k] ELSE <<>>

\* A copy that leaves the timestamps out.
CopyStruct_NoTimes(v) ==
    [ID |-> v.ID, Name |-> v.Name, Description |-> v.Description,
     ParentID |-> v.ParentID, CreatedAt |-> "", UpdatedAt |-> ""]

\* compCopy := *component : a new struct holding the fields of *p.
CopyStruct(v) ==
    [ID |-> v.ID, Name |-> v.Name, Description |-> v.Description,
     ParentID |-> v.ParentID, CreatedAt |-> v.CreatedAt, UpdatedAt |-> v.UpdatedAt]

\* The state with the new struct; the new pointer is Len(heap) there.
NewCopy(c, p) == [c EXCEPT !.heap = Append(@, CopyStruct(c.heap[p]))]

\* The caller (or the loader) allocating a struct with value v.
NewStruct(c, v) == [c EXCEPT !.heap = Append(@, v)]

getParentKey(parentID) ==
    IF parentID.Valid THEN parentID.Int64 ELSE RootParentIDKey

\* removeChildFromParent that forgets the bucket that becomes empty.
removeChildFromParent_KeepLast(c, childID, parentKey) ==
    IF parentKey \notin DOMAIN c.childrenByParentID
    THEN c
    ELSE LET children == c.childrenByParentID[parentKey]
             updatedChildren == SelectSeq(children, LAMBDA a : c.heap[a].ID # childID)
         IN  IF Len(updatedChildren) > 0 /\ Len(updatedChildren) < Len(children)
             THEN [c EXCEPT !.childrenByParentID[parentKey] = updatedChildren]
             ELSE c

\* removeChildFromParent that leaves the key of a bucket that became empty.
removeChildFromParent_NoPrune(c, childID, parentKey) ==
    IF parentKey \notin DOMAIN c.childrenByParentID
    THEN c
    ELSE [c EXCEPT !.childrenByParentID[parentKey] =
             SelectSeq(@, LAMBDA a : c.heap[a].ID # childID)]

removeChildFromParent(c, childID, parentKey) ==
    IF parentKey \notin DOMAIN c.childrenByParentID
    THEN c
    ELSE LET children == c.childrenByParentID[parentKey]
             updatedChildren == SelectSeq(children, LAMBDA a : c.heap[a].ID # childID)
         IN  IF Len(updatedChildren) = 0
             THEN [c EXCEPT !.childrenByParentID = MapDelete(@, parentKey)]
             ELSE IF Len(updatedChildren) < Len(children)
                  THEN [c EXCEPT !.childrenByParentID[parentKey] = updatedChildren]
                  ELSE c

\* The loop of Set over allComponents: the first index holding id, 0 if none.
FoundInAll(c, id) ==
    IF \E i \in 1..Len(c.allComponents) : c.heap[c.allComponents[i]].ID = id
    THEN CHOOSE i \in 1..Len(c.allComponents) :
            /\ c.heap[c.allComponents[i]].ID = id
            /\ \A j \in 1..(i - 1) : c.heap[c.allComponents[j]].ID # id
    ELSE 0

\* Set that never leaves the old parent's bucket.
SetRemoveOld_Never(c, component) == c

\* Set that compares the numeric parts of the two ParentIDs only.
SetRemoveOld_Int64Only(c, component) ==
    IF component.ID \in DOMAIN c.componentsByID
    THEN LET oldComp == c.heap[c.componentsByID[component.ID]]
         IN  IF oldComp.ParentID.Int64 # component.ParentID.Int64
             THEN removeChildFromParent(c, oldComp.ID, getParentKey(oldComp.ParentID))
             ELSE c
    ELSE c

\* Set that compares the Valid flags of the two ParentIDs only.
SetRemoveOld_ValidOnly(c, component) ==
    IF component.ID \in DOMAIN c.componentsByID
    THEN LET oldComp == c.heap[c.componentsByID[component.ID]]
         IN  IF oldComp.ParentID.Valid # component.ParentID.Valid
             THEN removeChildFromParent(c, oldComp.ID, getParentKey(oldComp.ParentID))
             ELSE c
    ELSE c

\* Set, lines 86-92: leave the old parent's bucket when the parent changed.
SetRemoveOld(c, component) ==
    IF component.ID \in DOMAIN c.componentsByID
    THEN LET oldComp == c.heap[c.componentsByID[component.ID]]
         IN  IF oldComp.ParentID # component.ParentID
             THEN removeChildFromParent(c, oldComp.ID, getParentKey(oldComp.ParentID))
             ELSE c
    ELSE c

\* Set that appends to allComponents without looking for the id.
SetUpdateAll_AlwaysAppend(c, id, a) ==
    [c EXCEPT !.allComponents = Append(@, a), !.allComponentsNil = FALSE]

\* Set that puts a new component at the head of allComponents.
SetUpdateAll_Prepend(c, id, a) ==
    LET i == FoundInAll(c, id)
    IN  IF i # 0
        THEN [c EXCEPT !.allComponents[i] = a]
        ELSE [c EXCEPT !.allComponents = <<a>> \o @, !.allComponentsNil = FALSE]

\* Set that takes the old entry out of allComponents and appends the new one.
SetUpdateAll_MoveToEnd(c, id, a) ==
    [c EXCEPT !.allComponents =
                  Append(SelectSeq(@, LAMBDA x : c.heap[x].ID # id), a),
              !.allComponentsNil = FALSE]

\* Set that leaves the slot of a cached id in allComponents as it is.
SetUpdateAll_KeepOld(c, id, a) ==
    IF FoundInAll(c, id) # 0
    THEN c
    ELSE [c EXCEPT !.allComponents = Append(@, a), !.allComponentsNil = FALSE]

\* Set, lines 97-109: replace the slot of the id in allComponents, or append.
SetUpdateAll(c, id, a) ==
    LET i == FoundInAll(c, id)
    IN  IF i # 0
        THEN [c EXCEPT !.allComponents[i] = a]
        ELSE [c EXCEPT !.allComponents = Append(@, a), !.allComponentsNil = FALSE]

\* Set that appends to the new parent's bucket without de-duplicating it.
SetAddToParent_NoDedup(c, id, newParentKey, a) ==
    [c EXCEPT !.childrenByParentID =
        MapPut(@, newParentKey, Append(MapGetSlice(@, newParentKey), a))]

\* Set that de-duplicates the new parent's bucket and does not append.
SetAddToParent_NoAppend(c, id, newParentKey, a) ==
    removeChildFromParent(c, id, newParentKey)

\* Set that puts the copy at the head of the new parent's bucket.
SetAddToParent_Prepend(c, id, newParentKey, a) ==
    LET c1 == removeChildFromParent(c, id, newParentKey)
    IN  [c1 EXCEPT !.childrenByParentID =
            MapPut(@, newParentKey, <<a>> \o MapGetSlice(@, newParentKey))]

\* Set, lines 111-118: de-duplicate the new parent's bucket, then append.
SetAddToParent(c, id, newParentKey, a) ==
    LET c1 == removeChildFromParent(c, id, newParentKey)
    IN  [c1 EXCEPT !.childrenByParentID =
            MapPut(@, newParentKey, Append(MapGetSlice(@, newParentKey), a))]

\* Set that stores the caller's pointer instead of a copy.
SetOp_StoreInput(c, p) ==
    LET component == c.heap[p]
        c1 == SetRemoveOld(c, component)
        c3 == [c1 EXCEPT !.componentsByID = MapPut(@, component.ID, p)]
        c4 == SetUpdateAll(c3, component.ID, p)
    IN  SetAddToParent(c4, component.ID, getParentKey(component.ParentID), p)

\* ComponentCache.Set(component), component being the pointer p.
SetOp(c, p) ==
    LET component == c.heap[p]
        c1 == SetRemoveOld(c, component)
        c2 == NewCopy(c1, p)
        a  == Len(c2.heap)
        compCopy == c2.heap[a]
        c3 == [c2 EXCEPT !.componentsByID = MapPut(@, compCopy.ID, a)]
        c4 == SetUpdateAll(c3, compCopy.ID, a)
    IN  SetAddToParent(c4, compCopy.ID, getParentKey(compCopy.ParentID), a)

\* Delete that leaves allComponents as it is.
DeleteFromAll_Keep(c, componentID) == c

\* Delete that moves the last entry of allComponents into the slot of the id.
DeleteFromAll_SwapRemove(c, componentID) ==
    LET i == FoundInAll(c, componentID)
        n == Len(c.allComponents)
    IN  IF i = 0
        THEN c
        ELSE [c EXCEPT !.allComponents =
                           SubSeq([c.allComponents EXCEPT ![i] = c.allComponents[n]], 1, n - 1),
                       !.allComponentsNil = (n = 1)]

\* Delete, lines 133-139: allComponents without the entries of the id; the
\* new slice starts nil and stays nil when nothing is appended to it.
DeleteFromAll(c, componentID) ==
    LET updatedAllComponents ==
            SelectSeq(c.allComponents, LAMBDA a : c.heap[a].ID # componentID)
    IN  [c EXCEPT !.allComponents = updatedAllComponents,
                  !.allComponentsNil = (updatedAllComponents = <<>>)]

\* Delete that cascades: the components whose ParentID is the id go as well.
DeleteOp_Cascade(c, componentID) ==
    IF componentID \notin DOMAIN c.componentsByID
    THEN c
    ELSE LET component == c.heap[c.componentsByID[componentID]]
             gone == { x \in DOMAIN c.componentsByID :
                         \/ x = componentID
                         \/ c.heap[c.componentsByID[x]].ParentID
                                = [Int64 |-> componentID, Valid |-> TRUE] }
             c1 == [c EXCEPT !.componentsByID =
                        [x \in (DOMAIN @) \ gone |-> @[x]]]
             c2 == DeleteFromAll(c1, componentID)
         IN  removeChildFromParent(c2, componentID, getParentKey(component.ParentID))

\* Delete that, for an id that is not cached, drops the bucket keyed by the id.
DeleteOp_DropOrphans(c, componentID) ==
    IF componentID \notin DOMAIN c.componentsByID
    THEN [c EXCEPT !.childrenByParentID = MapDelete(@, componentID)]
    ELSE LET component == c.heap[c.componentsByID[componentID]]
             c1 == [c EXCEPT !.componentsByID = MapDelete(@, componentID)]
             c2 == DeleteFromAll(c1, componentID)
         IN  removeChildFromParent(c2, componentID, getParentKey(component.ParentID))

\* Delete that leaves the component in the bucket of its parent key.
DeleteOp_KeepInBucket(c, componentID) ==
    IF componentID \notin DOMAIN c.componentsByID
    THEN c
    ELSE DeleteFromAll([c EXCEPT !.componentsByID = MapDelete(@, componentID)],
                       componentID)

\* ComponentCache.Delete(componentID).
DeleteOp(c, componentID) ==
    IF componentID \notin DOMAIN c.componentsByID
    THEN c
    ELSE LET component == c.heap[c.componentsByID[componentID]]
             c1 == [c EXCEPT !.componentsByID = MapDelete(@, componentID)]
             c2 == DeleteFromAll(c1, componentID)
         IN  removeChildFromParent(c2, componentID, getParentKey(component.ParentID))

\* An iteration of InitGlobalCache that appends the copy to its bucket twice.
InitStep_AppendTwice(c, p) ==
    LET c1 == NewCopy(c, p)
        a  == Len(c1.heap)
        compCopy == c1.heap[a]
        parentKey == getParentKey(compCopy.ParentID)
    IN  [c1 EXCEPT !.componentsByID = MapPut(@, compCopy.ID, a),
                   !.allComponents = Append(@, a),
                   !.allComponentsNil = FALSE,
                   !.childrenByParentID =
                       MapPut(@, parentKey,
                              Append(Append(MapGetSlice(@, parentKey), a), a))]

\* One iteration of the loop of InitGlobalCache over the pointer p.
InitStep(c, p) ==
    LET c1 == NewCopy(c, p)
        a  == Len(c1.heap)
        compCopy == c1.heap[a]
        parentKey == IF compCopy.ParentID.Valid
                     THEN compCopy.ParentID.Int64
                     ELSE RootParentIDKey
    IN  [c1 EXCEPT !.componentsByID = MapPut(@, compCopy.ID, a),
                   !.allComponents = Append(@, a),
                   !.allComponentsNil = FALSE,
                   !.childrenByParentID =
                       MapPut(@, parentKey, Append(MapGetSlice(@, parentKey), a))]

RECURSIVE InitLoop(_, _, _)
InitLoop(c, components, i) ==
    IF i > Len(components)
    THEN c
    ELSE InitLoop(InitStep(c, components[i]), components, i + 1)

\* InitGlobalCache that fills the cache it finds instead of a new one.
InitGlobalCacheOp_Merge(c, components) ==
    InitLoop(c, components, 1)

\* InitGlobalCache when ListComponents returned the pointers `components`:
\* a new cache replaces the global one and is filled from the snapshot.
\* tempAllComponents starts nil (line 48).
InitGlobalCacheOp(c, components) ==
    InitLoop([NewComponentCache EXCEPT !.heap = c.heap, !.held = c.held,
                                       !.allComponentsNil = TRUE],
             components, 1)

\* A failed InitGlobalCache that leaves the cache it found.
InitGlobalCacheErrOp_KeepOld(c) == c

\* InitGlobalCache when ListComponents failed: the global is a new empty cache.
InitGlobalCacheErrOp(c) ==
    [NewComponentCache EXCEPT !.heap = c.heap, !.held = c.held]

(***************************************************************************)
(* Reads.  Each returns the state with the copies it allocated and the     *)
(* pointers it returns.                                                    *)
(***************************************************************************)
\* The loop of GetAll and GetChildren: one copy per pointer of `ptrs`.
RECURSIVE CopyEach(_, _, _)
CopyEach(r, ptrs, i) ==
    IF i > Len(ptrs)
    THEN r
    ELSE LET c1 == NewCopy(r.c, ptrs[i])
         IN  CopyEach([c |-> c1, ret |-> Append(r.ret, Len(c1.heap))], ptrs, i + 1)

\* GetByID that returns the cached pointer.
GetByIDOp_NoCopy(c, id) ==
    IF id \notin DOMAIN c.componentsByID
    THEN [c |-> c, ret |-> <<>>, found |-> FALSE]
    ELSE [c |-> c, ret |-> <<c.componentsByID[id]>>, found |-> TRUE]

\* GetByID: ret is <<>> for nil, <<pointer>> otherwise.
GetByIDOp(c, id) ==
    IF id \notin DOMAIN c.componentsByID
    THEN [c |-> c, ret |-> <<>>, found |-> FALSE]
    ELSE LET c1 == NewCopy(c, c.componentsByID[id])
         IN  [c |-> c1, ret |-> <<Len(c1.heap)>>, found |-> TRUE]

\* GetAll that returns the slice of the cache itself.
GetAllOp_ReturnField(c) ==
    [c |-> c, ret |-> c.allComponents, isNil |-> c.allComponentsNil]

\* GetAll: the result is made by make(..., 0, len), so it is never nil.
GetAllOp(c) ==
    LET r == CopyEach([c |-> c, ret |-> <<>>], c.allComponents, 1)
    IN  [c |-> r.c, ret |-> r.ret, isNil |-> FALSE]

\* GetChildren that reports found = true for every key.
GetChildrenOp_AlwaysFound(c, parentID) ==
    LET r == CopyEach([c |-> c, ret |-> <<>>], MapGetSlice(c.childrenByParentID, parentID), 1)
    IN  [c |-> r.c, ret |-> r.ret, found |-> TRUE]

GetChildrenOp(c, parentID) ==
    IF parentID \notin DOMAIN c.childrenByParentID
          \/ Len(c.childrenByParentID[parentID]) = 0
    THEN [c |-> c, ret |-> <<>>, found |-> FALSE]
    ELSE LET r == CopyEach([c |-> c, ret |-> <<>>], c.childrenByParentID[parentID], 1)
         IN  [c |-> r.c, ret |-> r.ret, found |-> TRUE]

(***************************************************************************)
(* Pointers are opaque and unreferenced structs are collected: the heap    *)
(* keeps the referenced cells only, numbered in the order in which the     *)
(* structures reference them.                                              *)
(***************************************************************************)
RECURSIVE ByIDRefs(_, _)
ByIDRefs(c, k) ==
    IF k > MaxKey THEN <<>>
    ELSE (IF k \in DOMAIN c.componentsByID THEN <<c.componentsByID[k]>> ELSE <<>>)
            \o ByIDRefs(c, k + 1)

RECURSIVE ChildrenRefs(_, _)
ChildrenRefs(c, k) ==
    IF k > MaxKey THEN <<>>
    ELSE MapGetSlice(c.childrenByParentID, k) \o ChildrenRefs(c, k + 1)

Refs(c) == c.allComponents \o ByIDRefs(c, 0) \o ChildrenRefs(c, 0) \o c.held.ptrs

RECURSIVE Dedup(_)
Dedup(s) ==
    IF s = <<>> THEN <<>>
    ELSE LET r == Dedup(SubSeq(s, 1, Len(s) - 1))
             l == s[Len(s)]
         IN  IF \E i \in 1..Len(r) : r[i] = l THEN r ELSE Append(r, l)

Collect(c) ==
    LET order == Dedup(Refs(c))
        ren == [a \in { order[i] : i \in 1..Len(order) } |->
                    CHOOSE i \in 1..Len(order) : order[i] = a]
        RenSeq(s) == [i \in 1..Len(s) |-> ren[s[i]]]
    IN  [heap |-> [i \in 1..Len(order) |-> c.heap[order[i]]],
         componentsByID |-> [k \in DOMAIN c.componentsByID |-> ren[c.componentsByID[k]]],
         childrenByParentID |->
             [k \in DOMAIN c.childrenByParentID |-> RenSeq(c.childrenByParentID[k])],
         allComponents |-> RenSeq(c.allComponents),
         held |-> [c.held EXCEPT !.ptrs = RenSeq(c.held.ptrs)],
         allComponentsNil |-> c.allComponentsNil]

\* The variables take the values of the record c.
Becomes(c) ==
    \E n \in {Collect(c)} :
        /\ heap' = n.heap
        /\ componentsByID' = n.componentsByID
        /\ childrenByParentID' = n.childrenByParentID
        /\ allComponents' = n.allComponents
        /\ held' = n.held
        /\ allComponentsNil' = n.allComponentsNil

\* The caller keeps the pointers ptrs of its call `from`, or lets them go.
Keep(c, from, ptrs, retain) ==
    IF retain THEN [c EXCEPT !.held = [from |-> from, ptrs |-> ptrs, wrote |-> FALSE]] ELSE c

(***************************************************************************)
(* What a caller sees: the values of the structs a read returns.           *)
(***************************************************************************)
Deref(c, ptrs) == [i \in 1..Len(ptrs) |-> c.heap[ptrs[i]]]

ValGetByID(c, id) ==
    LET r == GetByIDOp(c, id)
    IN  [found |-> r.found, vals |-> Deref(r.c, r.ret)]

ValGetAll(c) ==
    LET r == GetAllOp(c)
    IN  Deref(r.c, r.ret)

ValGetChildren(c, parentID) ==
    LET r == GetChildrenOp(c, parentID)
    IN  [found |-> r.found, vals |-> Deref(r.c, r.ret)]

\* The results of every read.
Observable(c) ==
    [byID |-> [id \in IDs |-> ValGetByID(c, id)],
     all |-> ValGetAll(c),
     children |-> [k \in Keys |-> ValGetChildren(c, k)]]

\* The ids of the structs of a sequence of values.
IdsOf(vals) == { vals[i].ID : i \in 1..Len(vals) }

\* How many structs of vals have the id.
CountOf(vals, id) == Cardinality({ i \in 1..Len(vals) : vals[i].ID = id })

NotFound == [found |-> FALSE, vals |-> <<>>]

(***************************************************************************)
(* Storage: the table components and the statements of ComponentStore.     *)
(* db.rows maps the id of a row to the row as a SELECT scans it, db.seq is *)
(* the last value of the sequence behind id SERIAL.                        *)
(***************************************************************************)
EmptyDB == [rows |-> <<>>, seq |-> 0]

NullParent == [Int64 |-> 0, Valid |-> FALSE]

\* CreateComponent and UpdateComponent write NULL for an absent parent and
\* for a present 0.
NormalizeParentID(parentID) ==
    IF parentID.Valid /\ parentID.Int64 # 0 THEN parentID ELSE NullParent

\* parent_id INTEGER REFERENCES components(id).
ForeignKeyHolds(d, parentID) ==
    ~parentID.Valid \/ parentID.Int64 \in DOMAIN d.rows

\* INSERT ... RETURNING id: the row with the next id of the sequence and
\* both timestamps of the insert ("t1").
CreateComponentOp(d, component) ==
    [rows |-> MapPut(d.rows, d.seq + 1,
                     [ID |-> d.seq + 1, Name |-> component.Name,
                      Description |-> component.Description,
                      ParentID |-> NormalizeParentID(component.ParentID),
                      CreatedAt |-> "t1", UpdatedAt |-> "t1"]),
     seq |-> d.seq + 1]

\* UPDATE ... WHERE id: name, description, parent_id and updated_at ("t2").
UpdateComponentOp(d, id, component) ==
    [d EXCEPT !.rows[id] =
        [@ EXCEPT !.Name = component.Name,
                  !.Description = component.Description,
                  !.ParentID = NormalizeParentID(component.ParentID),
                  !.UpdatedAt = "t2"]]

\* A DELETE that takes the rows that refer to the row with it.
DeleteComponentOp_Cascade(d, id) ==
    [d EXCEPT !.rows =
        [x \in { y \in DOMAIN @ : y # id
                      /\ @[y].ParentID # [Int64 |-> id, Valid |-> TRUE] } |-> @[x]]]

\* DELETE ... WHERE id, with parent_id ... ON DELETE SET NULL.
DeleteComponentOp(d, id) ==
    [d EXCEPT !.rows =
        [x \in DOMAIN @ \ {id} |->
            IF @[x].ParentID = [Int64 |-> id, Valid |-> TRUE]
            THEN [@[x] EXCEPT !.ParentID = NullParent]
            ELSE @[x]]]

\* What ListComponents can return: every row once, in some order (the rows
\* are ordered by created_at, which the rows of the model share).
ListComponentsOf(d) ==
    { s \in [1..Cardinality(DOMAIN d.rows) -> { d.rows[x] : x \in DOMAIN d.rows }] :
        \A i, j \in 1..Len(s) : i # j => s[i] # s[j] }

(***************************************************************************)
(* Actions.                                                                *)
(***************************************************************************)
Procs == 1..MaxProcs

\* The zero sync.RWMutex: no writer (0), no reader.
Unlocked == [writer |-> 0, readers |-> {}]

NoCall == [op |-> "none"]

\* The process before main runs: at line 18, no InitGlobalCache called, no
\* request served.
NotStarted == [pc |-> "main18", inits |-> 0, initErr |-> FALSE, served |-> 0]

Init ==
    /\ heap = <<>>
    /\ componentsByID = <<>>
    /\ childrenByParentID = <<>>
    /\ allComponents = <<>>
    /\ held = NoneHeld
    /\ allComponentsNil = FALSE
    /\ GlobalComponentCache = "nil"
    /\ mu = Unlocked
    /\ pc = [p \in Procs |-> "idle"]
    /\ call = [p \in Procs |-> NoCall]
    /\ serial = NewComponentCache
    /\ db = EmptyDB
    /\ main = NotStarted

\* The state after a caller built the struct e and called Set(&e).
SetCall(c, e, retain) ==
    LET c0 == NewStruct(c, e)
        p  == Len(c0.heap)
    IN  Keep(SetOp(c0, p), "Set", <<p>>, retain)

\* A call through the nil global panics; the methods are called once
\* InitGlobalCache has set it.
Set(e, retain) ==
    /\ e \in Components
    /\ GlobalComponentCache # "nil"
    /\ Becomes(SetCall(Cache, e, retain))
    /\ UNCHANGED GlobalComponentCache
    /\ UNCHANGED <<concVars, db, main>>

Delete(id) ==
    /\ id \in IDs
    /\ GlobalComponentCache # "nil"
    /\ Becomes(DeleteOp(Cache, id))
    /\ UNCHANGED GlobalComponentCache
    /\ UNCHANGED <<concVars, db, main>>

\* The loader allocating the rows of `snapshot`.
RECURSIVE LoadRows(_, _, _)
LoadRows(r, snapshot, i) ==
    IF i > Len(snapshot)
    THEN r
    ELSE LET c1 == NewStruct(r.c, snapshot[i])
         IN  LoadRows([c |-> c1, ret |-> Append(r.ret, Len(c1.heap))], snapshot, i + 1)

\* The state after InitGlobalCache(s), s.ListComponents() returning the rows
\* of `snapshot`.
InitGlobalCacheCall(c, snapshot, retain) ==
    LET r == LoadRows([c |-> c, ret |-> <<>>], snapshot, 1)
    IN  Keep(InitGlobalCacheOp(r.c, r.ret), "InitGlobalCache", r.ret, retain)

\* InitGlobalCache with a loader that returns the rows of `snapshot`.
InitGlobalCache(snapshot, retain) ==
    /\ snapshot \in Snapshots
    /\ Becomes(InitGlobalCacheCall(Cache, snapshot, retain))
    /\ GlobalComponentCache' = "cache"
    /\ UNCHANGED <<concVars, db, main>>

\* InitGlobalCache with a loader that fails.
InitGlobalCacheErr ==
    /\ Becomes(InitGlobalCacheErrOp(Cache))
    /\ GlobalComponentCache' = "cache"
    /\ UNCHANGED <<concVars, db, main>>

GetByID(id) ==
    /\ id \in IDs
    /\ GlobalComponentCache # "nil"
    /\ UNCHANGED GlobalComponentCache
    /\ UNCHANGED <<concVars, db, main>>
    /\ LET r == GetByIDOp(Cache, id)
       IN  Becomes(Keep(r.c, "GetByID", r.ret, TRUE))

GetAll ==
    /\ GlobalComponentCache # "nil"
    /\ UNCHANGED GlobalComponentCache
    /\ UNCHANGED <<concVars, db, main>>
    /\ LET r == GetAllOp(Cache)
       IN  Becomes(Keep(r.c, "GetAll", r.ret, TRUE))

GetChildren(parentID) ==
    /\ parentID \in Keys
    /\ GlobalComponentCache # "nil"
    /\ UNCHANGED GlobalComponentCache
    /\ UNCHANGED <<concVars, db, main>>
    /\ LET r == GetChildrenOp(Cache, parentID)
       IN  Becomes(Keep(r.c, "GetChildren", r.ret, TRUE))

Fields == {"ID", "Name", "Description", "ParentID", "CreatedAt", "UpdatedAt"}

\* The values a caller writes into field f of a struct it holds.
FieldValues(f) ==
    IF f = "ID" THEN IDs
    ELSE IF f = "ParentID" THEN NullInt64s
    ELSE { p[f] : p \in Payloads }

\* The state after a caller wrote v into field f of the i-th struct it holds
\* a pointer to, and let go of its pointers.
MutateOp(c, i, f, v) ==
    [c EXCEPT !.heap[c.held.ptrs[i]][f] = v,
              !.held = [from |-> c.held.from, ptrs |-> <<>>, wrote |-> TRUE]]

Mutate(i, f, v) ==
    /\ i \in 1..Len(held.ptrs)
    /\ heap[held.ptrs[i]][f] # v
    /\ Becomes(MutateOp(Cache, i, f, v))
    /\ UNCHANGED GlobalComponentCache
    /\ UNCHANGED <<concVars, db, main>>

Next ==
    \/ \E e \in Components : Set(e, FALSE)
    \/ \E id \in IDs : Delete(id)
    \/ \E snapshot \in Snapshots : InitGlobalCache(snapshot, FALSE)
    \/ InitGlobalCacheErr

Spec == Init /\ [][Next]_vars

(***************************************************************************)
(* The callers that keep pointers: a smaller set of inputs, every read,    *)
(* and writes through the pointers kept.                                   *)
(***************************************************************************)
AliasIDs == 1..(MaxID - 1)

AliasNullInt64s ==
    { [Int64 |-> 0, Valid |-> FALSE], [Int64 |-> MaxParent, Valid |-> TRUE] }

AliasComponents ==
    { Component(id, p, par) : id \in AliasIDs, p \in Payloads, par \in AliasNullInt64s }

AliasSnapshots ==
    UNION { { s \in [1..n -> AliasComponents \cap ScannedComponents] :
                \A i, j \in 1..n : i # j => s[i].ID # s[j].ID } : n \in 0..MaxSnap }

NextAlias ==
    \/ \E e \in AliasComponents, retain \in BOOLEAN : Set(e, retain)
    \/ \E id \in AliasIDs : Delete(id)
    \/ \E snapshot \in AliasSnapshots, retain \in BOOLEAN : InitGlobalCache(snapshot, retain)
    \/ InitGlobalCacheErr
    \/ \E id \in AliasIDs : GetByID(id)
    \/ GetAll
    \/ \E parentID \in 0..MaxParent : GetChildren(parentID)
    \/ \E i \in IDs, f \in Fields : \E v \in FieldValues(f) : Mutate(i, f, v)

SpecAlias == Init /\ [][NextAlias]_vars

(***************************************************************************)
(* The structures of the current state, by id.                             *)
(***************************************************************************)
IdsOfAll == IdsOf(Deref(Cache, allComponents))

IdsOfByID == DOMAIN componentsByID

IdsOfBucket(k) == IdsOf(Deref(Cache, MapGetSlice(childrenByParentID, k)))

IdsOfBuckets == UNION { IdsOfBucket(k) : k \in DOMAIN childrenByParentID }

\* The ParentID the by-ID index stores for a cached id.
StoredParentID(id) == heap[componentsByID[id]].ParentID

\* The cached ids whose stored ParentID is {P, true}.
CachedChildren(P) ==
    { x \in DOMAIN componentsByID : StoredParentID(x) = [Int64 |-> P, Valid |-> TRUE] }

\* C1: in every state reachable by InitGlobalCache, Set and Delete, the ids of
\* allComponents, the keys of componentsByID and the ids found in the buckets
\* of childrenByParentID are the same set.
C1_IndexConsistency ==
    /\ IdsOfAll = IdsOfByID
    /\ IdsOfByID = IdsOfBuckets

\* Three components are cached, spread over two buckets.
C1_Witness ==
    /\ Cardinality(IdsOfByID) >= 3
    /\ Cardinality(DOMAIN childrenByParentID) >= 2
    /\ IdsOfBuckets = IdsOfByID

C3_DeleteDoesNotCascade ==
    \A P \in DOMAIN componentsByID :
        \A x \in CachedChildren(P) \ {P} :
            /\ ValGetByID(DeleteOp(Cache, P), x).found
            /\ ValGetByID(DeleteOp(Cache, P), x) = ValGetByID(Cache, x)
            /\ ValGetByID(DeleteOp(Cache, P), x).vals[1].ParentID
                    = [Int64 |-> P, Valid |-> TRUE]

\* P is cached with two cached children, and Delete(P) removes P.
C3_Witness ==
    \E P \in DOMAIN componentsByID :
        /\ Cardinality(CachedChildren(P) \ {P}) >= 2
        /\ ~ValGetByID(DeleteOp(Cache, P), P).found
        /\ \A x \in CachedChildren(P) \ {P} : ValGetByID(DeleteOp(Cache, P), x).found

\* C4: when Delete(P) removes a cached P that has cached children, GetChildren(P)
\* returns an empty collection with found = false afterwards.
C4_DeleteRemovesBucketOfDeleted ==
    [][\A P \in IDs :
          (/\ P \in DOMAIN componentsByID
           /\ CachedChildren(P) \ {P} # {}
           /\ Delete(P))
          => ValGetChildren(Cache, P)' = NotFound]_vars

\* C5: re-parenting moves and never duplicates.  When e.ID is cached in the
\* bucket of key k1 and Set(e) gives it a ParentID resolving to another key
\* k2, afterwards GetChildren(k1) has no entry with e.ID, GetChildren(k2) has
\* exactly one, and GetByID(e.ID) reports the ParentID of e.
C5_ReparentMoves ==
    \A e \in Components :
        \A k1 \in Keys :
            (/\ e.ID \in DOMAIN componentsByID
             /\ e.ID \in IdsOfBucket(k1)
             /\ getParentKey(e.ParentID) # k1)
            => LET after == SetCall(Cache, e, FALSE)
                   k2 == getParentKey(e.ParentID)
               IN  /\ CountOf(ValGetChildren(after, k1).vals, e.ID) = 0
                   /\ CountOf(ValGetChildren(after, k2).vals, e.ID) = 1
                   /\ ValGetChildren(after, k2).found
                   /\ ValGetByID(after, e.ID).found
                   /\ ValGetByID(after, e.ID).vals[1].ParentID = e.ParentID

\* A component is cached under parent 1 next to a sibling, the root bucket
\* holds another one, and a Set moves it to the root bucket.
C5_Witness ==
    \E e \in Components :
        /\ e.ID \in DOMAIN componentsByID
        /\ StoredParentID(e.ID) = [Int64 |-> 1, Valid |-> TRUE]
        /\ Cardinality(IdsOfBucket(1)) >= 2
        /\ IdsOfBucket(RootParentIDKey) # {}
        /\ ~e.ParentID.Valid
        /\ e.ID \in IdsOf(ValGetChildren(SetCall(Cache, e, FALSE), RootParentIDKey).vals)
        /\ e.ID \notin IdsOf(ValGetChildren(SetCall(Cache, e, FALSE), 1).vals)

\* C6: round trip.  In every reachable state and for every component e,
\* GetByID(e.ID) right after Set(e) is found and equals e in every field.
C6_RoundTrip ==
    \A e \in Components :
        ValGetByID(SetCall(Cache, e, FALSE), e.ID) = [found |-> TRUE, vals |-> <<e>>]

\* An id is cached with one value and Set stores another value for it.
C6_Witness ==
    \E e \in Components :
        /\ e.ID \in DOMAIN componentsByID
        /\ heap[componentsByID[e.ID]].Name # e.Name
        /\ heap[componentsByID[e.ID]].ParentID # e.ParentID
        /\ ValGetByID(SetCall(Cache, e, FALSE), e.ID).vals = <<e>>

\* C7: idempotent upsert.  In every reachable state and for every e, the
\* results of GetByID for every id, of GetAll and of GetChildren for every key
\* (contents and order) are the same after Set(e); Set(e) as after Set(e).
C7_IdempotentSet ==
    \A e \in Components :
        Observable(SetCall(SetCall(Cache, e, FALSE), e, FALSE))
            = Observable(SetCall(Cache, e, FALSE))

\* The first Set(e) changes the results (e.ID is cached with another parent
\* and has a sibling in the bucket it moves to), the second one does not.
C7_Witness ==
    \E e \in Components :
        /\ e.ID \in DOMAIN componentsByID
        /\ getParentKey(StoredParentID(e.ID)) # getParentKey(e.ParentID)
        /\ IdsOfBucket(getParentKey(e.ParentID)) # {}
        /\ Observable(SetCall(Cache, e, FALSE)) # Observable(Cache)
        /\ Observable(SetCall(SetCall(Cache, e, FALSE), e, FALSE))
              = Observable(SetCall(Cache, e, FALSE))

(***************************************************************************)
(* Callers that write through the pointers they keep.                      *)
(***************************************************************************)
ReadCalls == {"GetByID", "GetAll", "GetChildren"}

InputCalls == {"Set", "InitGlobalCache"}

\* The pointers the cache holds.
CacheRefs ==
    { allComponents[i] : i \in 1..Len(allComponents) }
        \cup { componentsByID[k] : k \in DOMAIN componentsByID }
        \cup UNION { { childrenByParentID[k][i] : i \in 1..Len(childrenByParentID[k]) } :
                       k \in DOMAIN childrenByParentID }

\* The pointers the caller holds are pairwise distinct and none is the cache's.
HeldApart ==
    /\ \A i, j \in 1..Len(held.ptrs) : i # j => held.ptrs[i] # held.ptrs[j]
    /\ \A i \in 1..Len(held.ptrs) : held.ptrs[i] \notin CacheRefs

\* Every write of a field of a struct the caller holds leaves the result of
\* every read as it is.
WritesUnseen ==
    \A i \in 1..Len(held.ptrs) :
        \A f \in Fields :
            \A v \in FieldValues(f) :
                Observable(MutateOp(Cache, i, f, v)) = Observable(Cache)

\* C8: copy isolation of results.  The structs returned by GetByID, GetAll and
\* GetChildren are fresh (distinct from each other and from the structs of
\* the cache), and a caller writing any field of one of them changes the
\* result of no later GetByID, GetAll or GetChildren.
C8_ResultsAreCopies ==
    held.from \in ReadCalls => (HeldApart /\ WritesUnseen)

\* A caller wrote through a pointer a read returned, while components are cached.
C8_Witness ==
    /\ held.from \in ReadCalls
    /\ held.wrote
    /\ componentsByID # <<>>

\* C9: copy isolation of inputs.  The struct passed to Set and the structs of
\* the snapshot given to InitGlobalCache are not the cache's, and a caller
\* writing any field of one of them after the call changes the result of no
\* GetByID, GetAll or GetChildren.
C9_InputsAreCopied ==
    held.from \in InputCalls => (HeldApart /\ WritesUnseen)

\* A caller wrote through the pointer it had passed to Set, or through a
\* pointer of the snapshot, while components are cached.
C9_Witness ==
    /\ held.from \in InputCalls
    /\ held.wrote
    /\ componentsByID # <<>>

\* C10: bucket pruning.  When x is the only component in the bucket of key k,
\* GetChildren(k) returns (empty, false) after Delete(x) and after every
\* Set that gives x a ParentID resolving to another key.
C10_BucketPruning ==
    \A k \in Keys :
        \A x \in DOMAIN componentsByID :
            (/\ IdsOfBucket(k) = {x}
             /\ Len(childrenByParentID[k]) = 1)
            => /\ ValGetChildren(DeleteOp(Cache, x), k) = NotFound
               /\ \A e \in Components :
                      (e.ID = x /\ getParentKey(e.ParentID) # k)
                      => ValGetChildren(SetCall(Cache, e, FALSE), k) = NotFound

\* x is the only child of parent 1 (which is cached too): Delete(x) and a
\* Set moving x to the root both leave no bucket for key 1.
C10_Witness ==
    \E x \in DOMAIN componentsByID :
        /\ 1 \in DOMAIN componentsByID
        /\ x # 1
        /\ IdsOfBucket(1) = {x}
        /\ 1 \notin DOMAIN DeleteOp(Cache, x).childrenByParentID
        /\ \E e \in Components :
               /\ e.ID = x
               /\ ~e.ParentID.Valid
               /\ 1 \notin DOMAIN SetCall(Cache, e, FALSE).childrenByParentID

\* GetAll lists no id twice and as many structs as componentsByID has keys.
FlatListingOnce(c) ==
    /\ \A i, j \in 1..Len(ValGetAll(c)) :
           i # j => ValGetAll(c)[i].ID # ValGetAll(c)[j].ID
    /\ Len(ValGetAll(c)) = Cardinality(DOMAIN c.componentsByID)

RowsOfKey(snapshot, k) ==
    SelectSeq(snapshot, LAMBDA r : getParentKey(r.ParentID) = k)

\* C15: after a successful InitGlobalCache, whatever the cache held before,
\* GetByID finds every row of the snapshot with the row's value and no other
\* id, GetAll is the snapshot in its order, and GetChildren(k) is, in snapshot
\* order, the rows whose ParentID resolves to k (found = false when none).
C15_InitHoldsSnapshot ==
    \A snapshot \in Snapshots :
        LET after == InitGlobalCacheCall(Cache, snapshot, FALSE)
        IN  /\ ValGetAll(after) = snapshot
            /\ \A id \in IDs :
                   IF \E i \in 1..Len(snapshot) : snapshot[i].ID = id
                   THEN \E i \in 1..Len(snapshot) :
                            /\ snapshot[i].ID = id
                            /\ ValGetByID(after, id) = [found |-> TRUE, vals |-> <<snapshot[i]>>]
                   ELSE ValGetByID(after, id) = NotFound
            /\ \A k \in Keys :
                   ValGetChildren(after, k)
                       = [found |-> RowsOfKey(snapshot, k) # <<>>,
                          vals |-> RowsOfKey(snapshot, k)]

\* The cache holds three components; a snapshot of two rows, a root and its
\* child, without one of the cached ids, is loaded.
C15_Witness ==
    /\ Cardinality(DOMAIN componentsByID) = 3
    /\ \E snapshot \in Snapshots :
           /\ Len(snapshot) = 2
           /\ ~snapshot[1].ParentID.Valid
           /\ snapshot[2].ParentID = [Int64 |-> snapshot[1].ID, Valid |-> TRUE]
           /\ ValGetAll(InitGlobalCacheCall(Cache, snapshot, FALSE)) = snapshot
           /\ \E id \in DOMAIN componentsByID :
                  ValGetByID(InitGlobalCacheCall(Cache, snapshot, FALSE), id) = NotFound

\* The cached ids whose stored ParentID resolves to the key k.
ResolvingTo(k) ==
    { id \in DOMAIN componentsByID : getParentKey(StoredParentID(id)) = k }

ByIDMap(c) == [id \in IDs |-> ValGetByID(c, id)]

\* The plain map of a snapshot.
SnapshotMap(snapshot) ==
    [id \in IDs |->
        IF \E i \in 1..Len(snapshot) : snapshot[i].ID = id
        THEN [found |-> TRUE,
              vals |-> <<snapshot[CHOOSE i \in 1..Len(snapshot) : snapshot[i].ID = id]>>]
        ELSE NotFound]

\* C18: GetByID is the lookup of a plain map that the writes maintain.  From
\* every reachable state, Set(e) puts e under e.ID and leaves the other ids,
\* Delete(id) removes id and leaves the other ids, a successful
\* InitGlobalCache makes the map that of its snapshot, and a failed one
\* empties it; a lookup that misses returns (nil, false).
C18_ByIDIsPlainMap ==
    /\ \A e \in Components :
           ByIDMap(SetCall(Cache, e, FALSE))
               = [ByIDMap(Cache) EXCEPT ![e.ID] = [found |-> TRUE, vals |-> <<e>>]]
    /\ \A id \in IDs :
           ByIDMap(DeleteOp(Cache, id)) = [ByIDMap(Cache) EXCEPT ![id] = NotFound]
    /\ \A snapshot \in Snapshots :
           ByIDMap(InitGlobalCacheCall(Cache, snapshot, FALSE)) = SnapshotMap(snapshot)
    /\ ByIDMap(InitGlobalCacheErrOp(Cache)) = [id \in IDs |-> NotFound]

\* Two ids are cached and one is not: a Set of the third, a Delete of the
\* first and a Set that replaces the second all change the map.
C18_Witness ==
    /\ Cardinality(DOMAIN componentsByID) = 2
    /\ \E id \in DOMAIN componentsByID :
           /\ ValGetByID(Cache, id).found
           /\ ~ValGetByID(DeleteOp(Cache, id), id).found
    /\ \E e \in Components :
           /\ e.ID \notin DOMAIN componentsByID
           /\ ValGetByID(SetCall(Cache, e, FALSE), e.ID).vals = <<e>>
    /\ \E e \in Components :
           /\ e.ID \in DOMAIN componentsByID
           /\ ValGetByID(Cache, e.ID).vals # <<e>>
           /\ ValGetByID(SetCall(Cache, e, FALSE), e.ID).vals = <<e>>

\* C20: Delete(id) for an id that is not cached changes nothing:
\* componentsByID, allComponents and every bucket are as before, also when
\* cached components have ParentID {id, true}.
C20_DeleteAbsentIsNoOp ==
    \A id \in IDs :
        id \notin DOMAIN componentsByID
        => /\ DeleteOp(Cache, id).componentsByID = componentsByID
           /\ DeleteOp(Cache, id).allComponents = allComponents
           /\ DeleteOp(Cache, id).childrenByParentID = childrenByParentID
           /\ DeleteOp(Cache, id).heap = heap
           /\ Observable(DeleteOp(Cache, id)) = Observable(Cache)

\* An id is not cached while two cached components have it as their parent.
C20_Witness ==
    \E id \in IDs :
        /\ id \notin DOMAIN componentsByID
        /\ Cardinality(CachedChildren(id)) = 2
        /\ ValGetChildren(DeleteOp(Cache, id), id).found

\* C19: GetAll never returns a nil slice.  In every reachable state, also when
\* allComponents is nil (after InitGlobalCache from an empty snapshot, after
\* the Delete of the last component), the result is not nil and holds one
\* entry per cached component, in the order of allComponents.
C19_GetAllNeverNil ==
    /\ ~GetAllOp(Cache).isNil
    /\ ValGetAll(Cache) = Deref(Cache, allComponents)
    /\ Len(ValGetAll(Cache)) = Cardinality(DOMAIN componentsByID)
    /\ IdsOf(ValGetAll(Cache)) = DOMAIN componentsByID
    /\ ~GetAllOp(InitGlobalCacheCall(Cache, <<>>, FALSE)).isNil
    /\ \A id \in IDs : ~GetAllOp(DeleteOp(Cache, id)).isNil

\* The slice allComponents of the cache is nil (an empty snapshot was loaded
\* or the last component was deleted) and GetAll returns an empty slice.
C19_Witness ==
    /\ GlobalComponentCache = "cache"
    /\ allComponentsNil
    /\ ValGetAll(Cache) = <<>>
    /\ ~GetAllOp(Cache).isNil

\* C16: when the loader fails, InitGlobalCache leaves nothing of any snapshot
\* observable and leaves the cache not ready: GlobalComponentCache is nil, so
\* that callers see there is no cache and fall back to storage.
C16_FailedInitLeavesNotReady ==
    [][InitGlobalCacheErr
          => /\ componentsByID' = <<>>
             /\ allComponents' = <<>>
             /\ childrenByParentID' = <<>>
             /\ GlobalComponentCache' = "nil"]_vars

(***************************************************************************)
(* Goroutines.  A call is taken apart into the steps between which another *)
(* goroutine can run.  The struct a caller passes and the rows the loader  *)
(* returns are values of the call; a call that finds the instance it was   *)
(* made on replaced by InitGlobalCache goes on with the old instance, which *)
(* nothing reads afterwards (pc = "detached").                             *)
(***************************************************************************)
\* A snapshot of the loader of a concurrent InitGlobalCache has at most
\* MaxConcRows rows.
MaxConcRows == 1

cacheVars == <<heap, componentsByID, childrenByParentID, allComponents, held,
               allComponentsNil>>

ConcComponents == AliasComponents \cap ScannedComponents

ConcSnapshots == { s \in AliasSnapshots : Len(s) <= MaxConcRows }

Calls ==
    [op : {"Set"}, component : ConcComponents]
        \cup [op : {"Delete"}, componentID : AliasIDs]
        \cup [op : {"InitGlobalCache"}, rows : ConcSnapshots, err : {FALSE}]
        \cup [op : {"InitGlobalCache"}, rows : {<<>>}, err : {TRUE}]
        \cup [op : {"GetByID"}, id : AliasIDs]
        \cup [op : {"GetAll"}]
        \cup [op : {"GetChildren"}, parentID : 0..MaxParent]

\* A Lock that does not wait for the readers.
LockFree_IgnoreReaders(m) == m.writer = 0

\* mu.Lock() returns when no goroutine holds mu.
LockFree(m) == m.writer = 0 /\ m.readers = {}

\* An RLock that does not wait for the writer.
RLockFree_Always(m) == TRUE

\* mu.RLock() returns when no writer holds mu.
RLockFree(m) == m.writer = 0

\* An Unlock right after the first statement of the call.
AfterStep_UnlockAtOnce(m, p, returns) == [m EXCEPT !.writer = 0]

\* A call that returns without Unlock.
AfterStep_NoUnlock(m, p, returns) == m

\* defer mu.Unlock(): mu is released when the call returns, not before.
AfterStep(m, p, returns) ==
    IF returns /\ m.writer = p THEN [m EXCEPT !.writer = 0] ELSE m

\* The new cache of line 35.
ReplaceGlobal(c) == [NewComponentCache EXCEPT !.heap = c.heap, !.held = c.held]

\* What the write k does under its lock, run alone on the cache c.  An
\* InitGlobalCache whose loader fails writes nothing after its line 35.
Serially(c, k) ==
    IF k.op = "Set" THEN SetCall(c, k.component, FALSE)
    ELSE IF k.op = "Delete" THEN DeleteOp(c, k.componentID)
    ELSE IF k.err THEN c
    ELSE InitGlobalCacheCall(c, k.rows, FALSE)

\* What the read k returns on the cache c.
ReadResult(c, k) ==
    IF k.op = "GetByID" THEN ValGetByID(c, k.id)
    ELSE IF k.op = "GetAll" THEN [found |-> TRUE, vals |-> ValGetAll(c)]
    ELSE ValGetChildren(c, k.parentID)

\* The goroutine p goes to `to`; when it returns, its call is over.
Goes(p, to) ==
    /\ pc' = [pc EXCEPT ![p] = to]
    /\ call' = [call EXCEPT ![p] = IF to = "idle" THEN NoCall ELSE @]

\* A goroutine calls k.  One InitGlobalCache runs at a time.
Call(p, k) ==
    /\ pc[p] = "idle"
    /\ k \in Calls
    /\ k.op # "InitGlobalCache" => GlobalComponentCache # "nil"
    /\ k.op = "InitGlobalCache" => \A q \in Procs : call[q].op # "InitGlobalCache"
    /\ pc' = [pc EXCEPT ![p] = IF k.op = "InitGlobalCache" THEN "init35"
                                ELSE IF k.op \in {"Set", "Delete"} THEN "lock"
                                ELSE "rlock"]
    /\ call' = [call EXCEPT ![p] = k]
    /\ UNCHANGED <<cacheVars, GlobalComponentCache, mu, serial, db, main>>

\* InitGlobalCache, line 35: the global points to a new cache, with its own
\* mutex; the calls in progress stay with the old one.  The call remembers
\* the cache it replaced (before).
InitReplace(p) ==
    /\ pc[p] = "init35"
    /\ Becomes(ReplaceGlobal(Cache))
    /\ GlobalComponentCache' = "cache"
    /\ mu' = Unlocked
    /\ pc' = [q \in Procs |-> IF q = p THEN "lock"
                              ELSE IF pc[q] = "idle" THEN "idle" ELSE "detached"]
    /\ call' = [call EXCEPT ![p] =
                   [op |-> "InitGlobalCache", rows |-> call[p].rows,
                    err |-> call[p].err, before |-> Cache]]
    /\ \E n \in {Collect(ReplaceGlobal(serial))} : serial' = n
    /\ UNCHANGED <<db, main>>

\* A call on a replaced instance returns.
Detached(p) ==
    /\ pc[p] = "detached"
    /\ Goes(p, "idle")
    /\ UNCHANGED <<cacheVars, GlobalComponentCache, mu, serial, db, main>>

\* mu.Lock() of Set (83), Delete (123) and InitGlobalCache (37).
Lock(p) ==
    /\ pc[p] = "lock"
    /\ LockFree(mu)
    /\ mu' = [mu EXCEPT !.writer = p]
    /\ pc' = [pc EXCEPT ![p] = IF call[p].op = "Set" THEN "set86"
                                ELSE IF call[p].op = "Delete" THEN "delete126"
                                ELSE "init40"]
    /\ \E n \in {Collect(Serially(serial, call[p]))} : serial' = n
    /\ UNCHANGED <<cacheVars, GlobalComponentCache, call, db, main>>

\* Set, lines 86-92.
SetLeaveOldBucket(p) ==
    /\ pc[p] = "set86"
    /\ Becomes(SetRemoveOld(Cache, call[p].component))
    /\ mu' = AfterStep(mu, p, FALSE)
    /\ Goes(p, "set94")
    /\ UNCHANGED <<GlobalComponentCache, serial, db, main>>

\* Set, lines 94-95.
SetStoreCopy(p) ==
    /\ pc[p] = "set94"
    /\ LET c2 == NewStruct(Cache, CopyStruct(call[p].component))
       IN  Becomes([c2 EXCEPT !.componentsByID =
                       MapPut(@, call[p].component.ID, Len(c2.heap))])
    /\ mu' = AfterStep(mu, p, FALSE)
    /\ Goes(p, "set97")
    /\ UNCHANGED <<GlobalComponentCache, serial, db, main>>

\* Set, lines 97-109.
SetUpdateFlat(p) ==
    /\ pc[p] = "set97"
    /\ Becomes(SetUpdateAll(Cache, call[p].component.ID,
                            componentsByID[call[p].component.ID]))
    /\ mu' = AfterStep(mu, p, FALSE)
    /\ Goes(p, "set117")
    /\ UNCHANGED <<GlobalComponentCache, serial, db, main>>

\* Set, line 117.
SetDedup(p) ==
    /\ pc[p] = "set117"
    /\ Becomes(removeChildFromParent(Cache, call[p].component.ID,
                                     getParentKey(call[p].component.ParentID)))
    /\ mu' = AfterStep(mu, p, FALSE)
    /\ Goes(p, "set118")
    /\ UNCHANGED <<GlobalComponentCache, serial, db, main>>

\* Set, line 118, and the return.
SetAppend(p) ==
    /\ pc[p] = "set118"
    /\ LET newParentKey == getParentKey(call[p].component.ParentID)
       IN  Becomes([Cache EXCEPT !.childrenByParentID =
                       MapPut(@, newParentKey,
                              Append(MapGetSlice(@, newParentKey),
                                     componentsByID[call[p].component.ID]))])
    /\ mu' = AfterStep(mu, p, TRUE)
    /\ Goes(p, "idle")
    /\ UNCHANGED <<GlobalComponentCache, serial, db, main>>

\* Delete, lines 126-131: return when the id is not cached, else drop the key.
DeleteLookup(p) ==
    /\ pc[p] = "delete126"
    /\ IF call[p].componentID \notin DOMAIN componentsByID
       THEN /\ mu' = AfterStep(mu, p, TRUE)
            /\ Goes(p, "idle")
            /\ UNCHANGED cacheVars
       ELSE /\ Becomes([Cache EXCEPT !.componentsByID = MapDelete(@, call[p].componentID)])
            /\ mu' = AfterStep(mu, p, FALSE)
            /\ pc' = [pc EXCEPT ![p] = "delete133"]
            /\ call' = [call EXCEPT ![p] =
                           [op |-> "Delete", componentID |-> call[p].componentID,
                            parentKey |-> getParentKey(StoredParentID(call[p].componentID))]]
    /\ UNCHANGED <<GlobalComponentCache, serial, db, main>>

\* Delete, lines 133-139.
DeleteFromFlat(p) ==
    /\ pc[p] = "delete133"
    /\ Becomes(DeleteFromAll(Cache, call[p].componentID))
    /\ mu' = AfterStep(mu, p, FALSE)
    /\ Goes(p, "delete141")
    /\ UNCHANGED <<GlobalComponentCache, serial, db, main>>

\* Delete, lines 141-142, and the return.
DeleteFromBucket(p) ==
    /\ pc[p] = "delete141"
    /\ Becomes(removeChildFromParent(Cache, call[p].componentID, call[p].parentKey))
    /\ mu' = AfterStep(mu, p, TRUE)
    /\ Goes(p, "idle")
    /\ UNCHANGED <<GlobalComponentCache, serial, db, main>>

\* InitGlobalCache, lines 40-43: the loader answers; an error is returned.
InitList(p) ==
    /\ pc[p] = "init40"
    /\ mu' = AfterStep(mu, p, call[p].err)
    /\ Goes(p, IF call[p].err THEN "idle" ELSE "init46")
    /\ UNCHANGED <<cacheVars, GlobalComponentCache, serial, db, main>>

\* InitGlobalCache, lines 46-74.
InitAssign(p) ==
    /\ pc[p] = "init46"
    /\ Becomes(InitGlobalCacheCall(Cache, call[p].rows, FALSE))
    /\ mu' = AfterStep(mu, p, TRUE)
    /\ Goes(p, "idle")
    /\ UNCHANGED <<GlobalComponentCache, serial, db, main>>

\* mu.RLock() of GetByID (167), GetAll (179) and GetChildren (193).
RLock(p) ==
    /\ pc[p] = "rlock"
    /\ RLockFree(mu)
    /\ mu' = [mu EXCEPT !.readers = @ \cup {p}]
    /\ Goes(p, "read")
    /\ UNCHANGED <<cacheVars, GlobalComponentCache, serial, db, main>>

\* The body of a read and its return; the copies it made go to the caller.
Read(p) ==
    /\ pc[p] = "read"
    /\ mu' = [mu EXCEPT !.readers = @ \ {p}]
    /\ Goes(p, "idle")
    /\ UNCHANGED <<cacheVars, GlobalComponentCache, serial, db, main>>

NextConc ==
    \/ \E p \in Procs, k \in Calls : Call(p, k)
    \/ \E p \in Procs : InitReplace(p)
    \/ \E p \in Procs : Detached(p)
    \/ \E p \in Procs : Lock(p)
    \/ \E p \in Procs : SetLeaveOldBucket(p)
    \/ \E p \in Procs : SetStoreCopy(p)
    \/ \E p \in Procs : SetUpdateFlat(p)
    \/ \E p \in Procs : SetDedup(p)
    \/ \E p \in Procs : SetAppend(p)
    \/ \E p \in Procs : DeleteLookup(p)
    \/ \E p \in Procs : DeleteFromFlat(p)
    \/ \E p \in Procs : DeleteFromBucket(p)
    \/ \E p \in Procs : InitList(p)
    \/ \E p \in Procs : InitAssign(p)
    \/ \E p \in Procs : RLock(p)
    \/ \E p \in Procs : Read(p)

SpecConc == Init /\ [][NextConc]_vars

\* The goroutines that are in InitGlobalCache, after its line 35.
InInit == { q \in Procs : call[q].op = "InitGlobalCache" /\ pc[q] # "init35" }

\* The structures of the cache are those of serial.
IsSerial ==
    /\ heap = serial.heap
    /\ componentsByID = serial.componentsByID
    /\ childrenByParentID = serial.childrenByParentID
    /\ allComponents = serial.allComponents
    /\ allComponentsNil = serial.allComponentsNil

\* C12: no reader sees a half-applied Set or Delete.  Whenever a goroutine is
\* in the body of GetByID, GetAll or GetChildren, the cache is the one that
\* the writes that took the lock so far build when each runs alone: what the
\* read returns is what it returns there, and every cached component is in
\* the bucket of its stored ParentID and in no other.
C12_ReadersSeeCompleteStates ==
    \A p \in Procs :
        pc[p] = "read"
        => /\ ReadResult(Cache, call[p]) = ReadResult(serial, call[p])
           /\ IsSerial
           /\ \A id \in DOMAIN componentsByID :
                  \A k \in Keys :
                      (id \in IdsOfBucket(k)) <=> (getParentKey(StoredParentID(id)) = k)

\* A goroutine is in the body of GetChildren while another one waits for the
\* lock with a Set that moves a cached component to another bucket.
C12_Witness ==
    \E p, q \in Procs :
        /\ pc[p] = "read"
        /\ call[p].op = "GetChildren"
        /\ pc[q] = "lock"
        /\ call[q].op = "Set"
        /\ call[q].component.ID \in DOMAIN componentsByID
        /\ getParentKey(StoredParentID(call[q].component.ID))
               # getParentKey(call[q].component.ParentID)
        /\ call[p].parentID = getParentKey(StoredParentID(call[q].component.ID))

\* C13: InitGlobalCache is atomic for the readers of the global cache.  A
\* goroutine in the body of a read while an InitGlobalCache call is in
\* progress gets what the read returns on the cache from before the call or
\* on the cache the call builds from its snapshot.
C13_InitIsAtomic ==
    \A p \in Procs :
        \A q \in InInit :
            pc[p] = "read"
            => ReadResult(Cache, call[p])
                   \in { ReadResult(call[q].before, call[p]),
                         ReadResult(Serially(ReplaceGlobal(call[q].before), call[q]),
                                    call[p]) }

\* C14: writes are linearized.  Whenever no goroutine holds the write lock,
\* the cache is the one built by running the Set and Delete calls (and the
\* locked part of InitGlobalCache) one at a time in the order in which they
\* took the lock; a new cache of InitGlobalCache counts when line 35 runs.
C14_WritesLinearized ==
    mu.writer = 0 => IsSerial

\* Two Sets of the same id with different values race: one is inside, the
\* other waits for the lock; the cache will hold the value of the second.
C14_Witness ==
    \E p, q \in Procs :
        /\ call[p].op = "Set"
        /\ call[q].op = "Set"
        /\ pc[p] = "set118"
        /\ pc[q] = "lock"
        /\ call[p].component.ID = call[q].component.ID
        /\ call[p].component # call[q].component
        /\ ValGetByID(Serially(serial, call[q]), call[q].component.ID).vals
               = <<call[q].component>>
(***************************************************************************)
(* Frame effects of Delete and Set.                                        *)
(***************************************************************************)
\* The values of the structs a bucket points to, in the order of the bucket.
BucketVals(c, k) == Deref(c, MapGetSlice(c.childrenByParentID, k))

\* C21: Delete(id) for a cached id removes exactly that component: GetByID(id)
\* finds nothing afterwards, GetAll returns one entry fewer and none with the
\* id, the bucket of the key its ParentID resolves to no longer lists it, and
\* GetByID of every other id returns what it returned before.
C21_DeleteRemovesExactlyThat ==
    \A id \in DOMAIN componentsByID :
        /\ ValGetByID(DeleteOp(Cache, id), id) = NotFound
        /\ Len(ValGetAll(DeleteOp(Cache, id))) = Len(ValGetAll(Cache)) - 1
        /\ id \notin IdsOf(ValGetAll(DeleteOp(Cache, id)))
        /\ id \notin IdsOf(BucketVals(DeleteOp(Cache, id),
                                      getParentKey(StoredParentID(id))))
        /\ \A x \in IDs \ {id} :
               ValGetByID(DeleteOp(Cache, id), x) = ValGetByID(Cache, x)

\* Three components are cached, the one to delete shares its bucket with
\* another, and Delete leaves two components and the other one in the bucket.
C21_Witness ==
    \E id \in DOMAIN componentsByID :
        /\ Len(allComponents) = 3
        /\ Cardinality(IdsOfBucket(getParentKey(StoredParentID(id)))) = 2
        /\ Len(ValGetAll(DeleteOp(Cache, id))) = 2
        /\ Cardinality(IdsOf(BucketVals(DeleteOp(Cache, id),
                                        getParentKey(StoredParentID(id))))) = 1

\* C22: a ParentID that is present with the value RootParentIDKey is
\* normalized to absent.  Every cached component whose ParentID resolves to
\* RootParentIDKey is listed by GetChildren(RootParentIDKey), and GetByID
\* returns it with ParentID.Valid = false: no cached component carries
\* ParentID {0, true}, whether Set stored it or InitGlobalCache loaded it.
C22_ZeroParentIsAbsent ==
    \A id \in DOMAIN componentsByID :
        getParentKey(StoredParentID(id)) = RootParentIDKey
        => /\ id \in IdsOf(ValGetChildren(Cache, RootParentIDKey).vals)
           /\ ~ValGetByID(Cache, id).vals[1].ParentID.Valid

\* C23: no operation calls out to storage while it holds the lock.  In
\* particular a goroutine that is about to call the loader of InitGlobalCache
\* (s.ListComponents, line 40) does not hold mu, so that no call on the cache
\* waits for the lock while the storage query runs.
C23_LoaderCalledUnlocked ==
    \A p \in Procs : pc[p] = "init40" => mu.writer # p

(***************************************************************************)
(* The write path: a write to storage that succeeds is followed by the     *)
(* call into the cache, with the row as storage holds it.  Before the      *)
(* cache is populated (the global is nil) the writes reach storage only.   *)
(***************************************************************************)
\* What a request carries: name, description and parent_id.
Requests ==
    { [Name |-> p.Name, Description |-> p.Description, ParentID |-> par] :
        p \in Payloads, par \in NullInt64s }

\* main: InitGlobalCache(componentStore), once, from the rows of storage.
StartUp ==
    /\ GlobalComponentCache = "nil"
    /\ \E snapshot \in ListComponentsOf(db) :
           Becomes(InitGlobalCacheCall(Cache, snapshot, FALSE))
    /\ GlobalComponentCache' = "cache"
    /\ UNCHANGED <<concVars, db, main>>

\* The cache call that follows a write.
Push(c) ==
    IF GlobalComponentCache = "nil" THEN UNCHANGED cacheVars ELSE Becomes(c)

\* CreateComponent, then Set of the row.
CreateThrough(r) ==
    /\ r \in Requests
    /\ db.seq < MaxID
    /\ ForeignKeyHolds(db, NormalizeParentID(r.ParentID))
    /\ \E d \in {CreateComponentOp(db, r)} :
           /\ db' = d
           /\ Push(SetCall(Cache, d.rows[d.seq], FALSE))
    /\ UNCHANGED <<GlobalComponentCache, concVars, main>>

\* UpdateComponent, then Set of the row.
UpdateThrough(id, r) ==
    /\ id \in DOMAIN db.rows
    /\ r \in Requests
    /\ ForeignKeyHolds(db, NormalizeParentID(r.ParentID))
    /\ \E d \in {UpdateComponentOp(db, id, r)} :
           /\ db' = d
           /\ Push(SetCall(Cache, d.rows[id], FALSE))
    /\ UNCHANGED <<GlobalComponentCache, concVars, main>>

\* DeleteComponent, then Delete of the id.
DeleteThrough(id) ==
    /\ id \in DOMAIN db.rows
    /\ db' = DeleteComponentOp(db, id)
    /\ Push(DeleteOp(Cache, id))
    /\ UNCHANGED <<GlobalComponentCache, concVars, main>>

NextWriteThrough ==
    \/ StartUp
    \/ \E r \in Requests : CreateThrough(r)
    \/ \E id \in IDs, r \in Requests : UpdateThrough(id, r)
    \/ \E id \in IDs : DeleteThrough(id)

SpecWriteThrough == Init /\ [][NextWriteThrough]_vars

\* The cached ids are the ids of the rows of storage.
SameIds ==
    /\ DOMAIN componentsByID = DOMAIN db.rows
    /\ IdsOfAll = DOMAIN db.rows
    /\ Len(allComponents) = Cardinality(DOMAIN db.rows)

\* C24 as claimed: the cache never diverges from storage.  After any sequence
\* of create, update and delete, each followed by Set of the row or Delete of
\* the id, the cached ids are the ids of storage and GetByID returns every
\* row as storage holds it, parent_id included (storage sets the parent_id of
\* the rows that referred to a deleted row to NULL).
C24_CacheEqualsStorage ==
    GlobalComponentCache # "nil"
    => /\ SameIds
       /\ \A id \in DOMAIN db.rows : ValGetByID(Cache, id).vals = <<db.rows[id]>>

\* C24, amended: the cached ids are the ids of storage, and GetByID returns
\* every row as storage holds it except that, where storage holds a NULL
\* parent_id, the cache may still hold the id of a row that was deleted.
C24_CacheEqualsStorageButOrphans ==
    GlobalComponentCache # "nil"
    => /\ SameIds
       /\ \A id \in DOMAIN db.rows :
              \/ ValGetByID(Cache, id).vals = <<db.rows[id]>>
              \/ /\ ~db.rows[id].ParentID.Valid
                 /\ StoredParentID(id).Valid
                 /\ StoredParentID(id).Int64 \notin DOMAIN db.rows
                 /\ ValGetByID(Cache, id).vals
                        = <<[db.rows[id] EXCEPT !.ParentID = StoredParentID(id)]>>

\* The row 1 was deleted after the cache was populated: storage holds the
\* row 2 with a NULL parent_id, the cache holds it with parent_id {1, true}
\* and lists it under GetChildren(1).
C24_Witness ==
    /\ GlobalComponentCache # "nil"
    /\ 1 \notin DOMAIN db.rows
    /\ 2 \in DOMAIN db.rows
    /\ ~db.rows[2].ParentID.Valid
    /\ StoredParentID(2) = [Int64 |-> 1, Valid |-> TRUE]
    /\ 2 \in IdsOf(ValGetChildren(Cache, 1).vals)

(***************************************************************************)
(* The request handlers of package api, as they are: each calls the store  *)
(* and answers; none of them calls the cache.  Rows written before main    *)
(* populated the cache are those of an earlier run of the service.         *)
(***************************************************************************)
createComponent(r) ==
    /\ r \in Requests
    /\ db.seq < MaxID
    /\ ForeignKeyHolds(db, NormalizeParentID(r.ParentID))
    /\ db' = CreateComponentOp(db, r)
    /\ UNCHANGED <<cacheVars, GlobalComponentCache, concVars, main>>

updateComponent(id, r) ==
    /\ id \in DOMAIN db.rows
    /\ r \in Requests
    /\ ForeignKeyHolds(db, NormalizeParentID(r.ParentID))
    /\ db' = UpdateComponentOp(db, id, r)
    /\ UNCHANGED <<cacheVars, GlobalComponentCache, concVars, main>>

deleteComponent(id) ==
    /\ id \in DOMAIN db.rows
    /\ db' = DeleteComponentOp(db, id)
    /\ UNCHANGED <<cacheVars, GlobalComponentCache, concVars, main>>

NextHandlers ==
    \/ StartUp
    \/ \E r \in Requests : createComponent(r)
    \/ \E id \in IDs, r \in Requests : updateComponent(id, r)
    \/ \E id \in IDs : deleteComponent(id)

SpecHandlers == Init /\ [][NextHandlers]_vars

\* C25: write-through.  When a create, update or delete request has returned
\* success, the populated cache reflects the write: GetByID finds exactly the
\* ids that storage holds and returns the name and the description that
\* storage holds for them.
C25_CacheReflectsWrites ==
    GlobalComponentCache # "nil"
    => \A id \in IDs :
           /\ ValGetByID(Cache, id).found <=> id \in DOMAIN db.rows
           /\ ValGetByID(Cache, id).found
              => /\ ValGetByID(Cache, id).vals[1].Name = db.rows[id].Name
                 /\ ValGetByID(Cache, id).vals[1].Description = db.rows[id].Description

(***************************************************************************)
(* The lock.                                                               *)
(***************************************************************************)
\* The goroutines between mu.Lock() and mu.Unlock() of a write.
Writing ==
    { p \in Procs : pc[p] \in {"set86", "set94", "set97", "set117", "set118",
                               "delete126", "delete133", "delete141",
                               "init40", "init46"} }

\* The goroutines between mu.RLock() and mu.RUnlock() of a read.
Reading == { p \in Procs : pc[p] = "read" }

CallServing(p, k) ==
    /\ k \in Calls
    /\ k.op = "InitGlobalCache" => GlobalComponentCache = "nil"
    /\ k.op # "InitGlobalCache" => \A q \in Procs : call[q].op # "InitGlobalCache"
    /\ Call(p, k)

\* Lock(p), without the record of the order of the writes (serial).
LockServing(p) ==
    /\ pc[p] = "lock"
    /\ LockFree(mu)
    /\ mu' = [mu EXCEPT !.writer = p]
    /\ pc' = [pc EXCEPT ![p] = IF call[p].op = "Set" THEN "set86"
                                ELSE IF call[p].op = "Delete" THEN "delete126"
                                ELSE "init40"]
    /\ UNCHANGED <<cacheVars, GlobalComponentCache, call, serial, db, main>>

\* The steps of the goroutine p inside a critical section.
Running(p) ==
    \/ SetLeaveOldBucket(p)
    \/ SetStoreCopy(p)
    \/ SetUpdateFlat(p)
    \/ SetDedup(p)
    \/ SetAppend(p)
    \/ DeleteLookup(p)
    \/ DeleteFromFlat(p)
    \/ DeleteFromBucket(p)
    \/ Read(p)

NextServing ==
    \/ \E p \in Procs, k \in Calls : CallServing(p, k)
    \/ \E p \in Procs : InitReplace(p)
    \/ \E p \in Procs : LockServing(p)
    \/ \E p \in Procs : InitList(p)
    \/ \E p \in Procs : InitAssign(p)
    \/ \E p \in Procs : RLock(p)
    \/ \E p \in Procs : Running(p)

\* Where a goroutine is while it holds the write lock in Set or Delete.
InsideWrite ==
    {"set86", "set94", "set97", "set117", "set118",
     "delete126", "delete133", "delete141"}

\* The steps of Set and Delete under the lock, as pc shows them: the
\* goroutine p goes from one statement of its critical section to the next,
\* or returns.
WriteStep(p) ==
    /\ pc[p] \in InsideWrite
    /\ \E to \in (InsideWrite \cup {"idle"}) \ {pc[p]} : pc' = [pc EXCEPT ![p] = to]

FairServing ==
    \A p \in Procs :
        /\ WF_pc(WriteStep(p))
        /\ WF_vars(Read(p))
        /\ SF_vars(LockServing(p))
        /\ SF_vars(RLock(p))

SpecServing == Init /\ [][NextServing]_vars /\ FairServing

\* C27: every GetByID, GetAll, GetChildren, Set and Delete on the populated
\* cache returns, whatever the other goroutine does: a goroutine that is in
\* such a call is eventually out of it, and a goroutine that is out of a
\* call holds the lock neither as a writer nor as a reader.
C27_EveryCallReturns ==
    /\ \A p \in Procs :
           (pc[p] # "idle" /\ call[p].op # "InitGlobalCache") ~> (pc[p] = "idle")
    /\ [](\A p \in Procs : pc[p] = "idle" => mu.writer # p /\ p \notin mu.readers)

\* A Delete of an id that is not cached holds the lock at its early return
\* while the other goroutine waits for the lock.
C27_Witness ==
    \E p, q \in Procs :
        /\ pc[p] = "delete126"
        /\ call[p].componentID \notin DOMAIN componentsByID
        /\ mu.writer = p
        /\ pc[q] \in {"lock", "rlock"}

\* The ids of a sequence of values, in its order.
IdSeq(vals) == [i \in 1..Len(vals) |-> vals[i].ID]

\* C28: Set(e) for a cached id whose ParentID resolves to the key the cached
\* one resolves to is a value update in place.  The keys of componentsByID,
\* the ids of allComponents and their order, the keys of childrenByParentID
\* and the ids each bucket holds are as before, GetByID of every other id
\* returns what it returned, and GetByID(e.ID) returns e.
C28_SetSameParentKeyUpdatesInPlace ==
    \A e \in Components :
        (/\ e.ID \in DOMAIN componentsByID
         /\ getParentKey(e.ParentID) = getParentKey(StoredParentID(e.ID)))
        => LET c == SetCall(Cache, e, FALSE)
           IN  /\ DOMAIN c.componentsByID = DOMAIN componentsByID
               /\ IdSeq(ValGetAll(c)) = IdSeq(ValGetAll(Cache))
               /\ DOMAIN c.childrenByParentID = DOMAIN childrenByParentID
               /\ \A k \in Keys :
                      /\ IdsOf(BucketVals(c, k)) = IdsOf(BucketVals(Cache, k))
                      /\ Len(BucketVals(c, k)) = Len(BucketVals(Cache, k))
               /\ \A x \in IDs \ {e.ID} : ValGetByID(c, x) = ValGetByID(Cache, x)
               /\ ValGetByID(c, e.ID).vals = <<e>>

\* A cached component that shares its bucket with another one gets a new
\* name, and a ParentID that differs as a struct ({0, true} against
\* {0, false}) while it resolves to the same key.
C28_Witness ==
    \E e \in Components :
        /\ e.ID \in DOMAIN componentsByID
        /\ getParentKey(e.ParentID) = getParentKey(StoredParentID(e.ID))
        /\ e.ParentID # StoredParentID(e.ID)
        /\ e.Name # heap[componentsByID[e.ID]].Name
        /\ Cardinality(IdsOfBucket(getParentKey(e.ParentID))) = 2
        /\ ValGetByID(SetCall(Cache, e, FALSE), e.ID).vals = <<e>>

\* C29: Set(e) for an id that is not cached is an insert.  GetAll returns one
\* entry more, the old entries at their positions and e last; GetChildren of
\* the key e's ParentID resolves to returns one entry more, e last; every
\* component cached before keeps its value and its bucket.
C29_SetNewIdInserts ==
    \A e \in Components :
        e.ID \notin DOMAIN componentsByID
        => LET c == SetCall(Cache, e, FALSE)
               k == getParentKey(e.ParentID)
           IN  /\ ValGetAll(c) = Append(ValGetAll(Cache), e)
               /\ ValGetChildren(c, k).found
               /\ ValGetChildren(c, k).vals = Append(ValGetChildren(Cache, k).vals, e)
               /\ \A j \in Keys \ {k} : ValGetChildren(c, j) = ValGetChildren(Cache, j)
               /\ \A x \in IDs \ {e.ID} : ValGetByID(c, x) = ValGetByID(Cache, x)
               /\ ValGetByID(c, e.ID).vals = <<e>>

\* Two components are cached, one of them in the bucket the new component
\* goes to; afterwards GetAll has three entries and that bucket two.
C29_Witness ==
    \E e \in Components :
        /\ e.ID \notin DOMAIN componentsByID
        /\ Len(allComponents) = 2
        /\ Len(ValGetChildren(Cache, getParentKey(e.ParentID)).vals) = 1
        /\ Len(ValGetAll(SetCall(Cache, e, FALSE))) = 3
        /\ Len(ValGetChildren(SetCall(Cache, e, FALSE), getParentKey(e.ParentID)).vals) = 2

\* C30: Set(e) for a cached id keeps the position of e in allComponents: the
\* ids GetAll returns, in order, are the same before and after the call,
\* whether the parent changed or not.
C30_SetKeepsFlatPosition ==
    \A e \in Components :
        e.ID \in DOMAIN componentsByID
        => IdSeq(ValGetAll(SetCall(Cache, e, FALSE))) = IdSeq(ValGetAll(Cache))

\* The component that is first of three in allComponents moves to another
\* bucket and is still first.
C30_Witness ==
    \E e \in Components :
        /\ Len(allComponents) = 3
        /\ heap[allComponents[1]].ID = e.ID
        /\ getParentKey(e.ParentID) # getParentKey(StoredParentID(e.ID))
        /\ ValGetAll(SetCall(Cache, e, FALSE))[1] = e

(***************************************************************************)
(* Order and contents of the buckets.                                      *)
(***************************************************************************)
\* C31: after Set(e), e is the last element GetChildren returns for the key
\* e's ParentID resolves to, and the elements before it are the former
\* elements of that bucket other than e.ID, in their former order: an update
\* with an unchanged parent moves e behind its siblings.
C31_SetPutsLastInBucket ==
    \A e \in Components :
        LET k == getParentKey(e.ParentID)
            after == ValGetChildren(SetCall(Cache, e, FALSE), k)
        IN  /\ after.found
            /\ after.vals[Len(after.vals)] = e
            /\ SubSeq(after.vals, 1, Len(after.vals) - 1)
                   = SelectSeq(BucketVals(Cache, k), LAMBDA v : v.ID # e.ID)

\* e is cached and is the first of the two components of its bucket; Set(e)
\* with the same parent makes it the second.
C31_Witness ==
    \E e \in Components :
        /\ e.ID \in DOMAIN componentsByID
        /\ e.ParentID = StoredParentID(e.ID)
        /\ Len(BucketVals(Cache, getParentKey(e.ParentID))) = 2
        /\ BucketVals(Cache, getParentKey(e.ParentID))[1].ID = e.ID
        /\ ValGetChildren(SetCall(Cache, e, FALSE), getParentKey(e.ParentID)).vals[2] = e

\* C32: whether Set takes the component out of its old bucket follows the
\* resolved parent keys.  When the key the cached ParentID resolves to and
\* the key the new one resolves to differ, the old bucket no longer lists the
\* id; when they are the same key (absent against {0, true}, or two absent
\* values with different numeric parts, included) that one bucket lists the
\* id exactly once.  No other bucket lists it.
C32_OldBucketFollowsResolvedKeys ==
    \A e \in Components :
        e.ID \in DOMAIN componentsByID
        => LET c == SetCall(Cache, e, FALSE)
               old == getParentKey(StoredParentID(e.ID))
               new == getParentKey(e.ParentID)
           IN  /\ old # new => CountOf(BucketVals(c, old), e.ID) = 0
               /\ CountOf(BucketVals(c, new), e.ID) = 1
               /\ \A k \in Keys \ {new} : CountOf(BucketVals(c, k), e.ID) = 0

\* Both cases occur in one state: a cached root component with an absent
\* ParentID is given {0, true} (same key), another {1, true} (another key).
C32_Witness ==
    \E e, f \in Components :
        /\ e.ID = f.ID
        /\ e.ID \in DOMAIN componentsByID
        /\ ~StoredParentID(e.ID).Valid
        /\ e.ParentID = [Int64 |-> 0, Valid |-> TRUE]
        /\ f.ParentID = [Int64 |-> 1, Valid |-> TRUE]
        /\ CountOf(BucketVals(SetCall(Cache, e, FALSE), RootParentIDKey), e.ID) = 1
        /\ CountOf(BucketVals(SetCall(Cache, f, FALSE), RootParentIDKey), f.ID) = 0
        /\ CountOf(BucketVals(SetCall(Cache, f, FALSE), 1), f.ID) = 1

\* C33: in every reachable state no key of childrenByParentID maps to an
\* empty bucket: removeChildFromParent deletes the key of a bucket that loses
\* its last element, and InitGlobalCache creates a key only by appending to
\* its bucket.
C33_NoEmptyBucket ==
    \A k \in DOMAIN childrenByParentID : Len(childrenByParentID[k]) > 0

\* Two buckets of one component each: Delete of either component, and a Set
\* that moves it to the other bucket, leave one key.
C33_Witness ==
    /\ Cardinality(DOMAIN childrenByParentID) = 2
    /\ \A k \in DOMAIN childrenByParentID : Len(childrenByParentID[k]) = 1
    /\ \A x \in DOMAIN componentsByID :
           Cardinality(DOMAIN DeleteOp(Cache, x).childrenByParentID) = 1
    /\ \E e \in Components :
           /\ e.ID \in DOMAIN componentsByID
           /\ getParentKey(e.ParentID) # getParentKey(StoredParentID(e.ID))
           /\ Cardinality(DOMAIN SetCall(Cache, e, FALSE).childrenByParentID) = 1

\* The entries of vals that carry the id.
EntriesOf(vals, id) == { vals[i] : i \in { j \in 1..Len(vals) : vals[j].ID = id } }

\* The three reads of the cache c agree on the component id.
AgreeOn(c, id) ==
    LET v == ValGetByID(c, id).vals[1]
    IN  /\ EntriesOf(ValGetAll(c), id) = {v}
        /\ EntriesOf(ValGetChildren(c, getParentKey(v.ParentID)).vals, id) = {v}

\* C34: the three structures agree on values.  In every reachable state, for
\* every cached id, the component GetByID returns, the entry of GetAll with
\* that id and the entry with that id of GetChildren for the key its
\* ParentID resolves to are equal in every field.
C34_StructuresAgreeOnValues ==
    \A id \in DOMAIN componentsByID : AgreeOn(Cache, id)

\* A cached component gets another name and another parent key by Set(e), and
\* the three reads return e afterwards.
C34_Witness ==
    \E e \in Components :
        /\ e.ID \in DOMAIN componentsByID
        /\ e.Name # heap[componentsByID[e.ID]].Name
        /\ getParentKey(e.ParentID) # getParentKey(StoredParentID(e.ID))
        /\ Len(allComponents) >= 2
        /\ ValGetByID(SetCall(Cache, e, FALSE), e.ID).vals = <<e>>
        /\ AgreeOn(SetCall(Cache, e, FALSE), e.ID)

\* C35: from the empty cache, or from an InitGlobalCache whose snapshot has
\* pairwise distinct ids, no sequence of Set and Delete leaves a bucket with
\* two entries of the same id.
C35_NoIdTwiceInBucket ==
    \A k \in DOMAIN childrenByParentID :
        \A i, j \in 1..Len(childrenByParentID[k]) :
            i # j => heap[childrenByParentID[k][i]].ID # heap[childrenByParentID[k][j]].ID

\* A bucket holds two components; a Set of either one with the same parent
\* and a Set that moves a third component into the bucket leave it with two
\* and three entries.
C35_Witness ==
    \E k \in DOMAIN childrenByParentID :
        /\ Len(childrenByParentID[k]) = 2
        /\ \E e \in Components :
               /\ e.ID \in IdsOfBucket(k)
               /\ getParentKey(e.ParentID) = k
               /\ Len(BucketVals(SetCall(Cache, e, FALSE), k)) = 2
        /\ \E e \in Components :
               /\ e.ID \in DOMAIN componentsByID
               /\ e.ID \notin IdsOfBucket(k)
               /\ getParentKey(e.ParentID) = k
               /\ Len(BucketVals(SetCall(Cache, e, FALSE), k)) = 3

C37_FailedInitReplacesGlobal ==
    /\ [](Observable(InitGlobalCacheErrOp(Cache))
              = [byID |-> [id \in IDs |-> NotFound],
                 all |-> <<>>,
                 children |-> [k \in Keys |-> NotFound]])
    /\ [][InitGlobalCacheErr
            => /\ GlobalComponentCache' = "cache"
               /\ componentsByID' = <<>>
               /\ allComponents' = <<>>
               /\ childrenByParentID' = <<>>]_vars

\* The global cache is the empty one that NewComponentCache makes (an empty
\* allComponents that is not nil: neither a loaded snapshot nor a Delete
\* leaves that) while a caller still holds what GetAll returned before.
C37_Witness ==
    /\ GlobalComponentCache = "cache"
    /\ componentsByID = <<>>
    /\ childrenByParentID = <<>>
    /\ allComponents = <<>>
    /\ ~allComponentsNil
    /\ held.from = "GetAll"
    /\ Len(held.ptrs) > 0

(***************************************************************************)
(* func main of main.go: InitDB, InitGlobalCache, the routes, and          *)
(* ListenAndServe, which answers requests until it fails.  log.Fatal and   *)
(* log.Fatalf end the process.                                             *)
(***************************************************************************)
\* The table that InitDB connects to: empty, or with one row written by an
\* earlier run of the service.
StartTables ==
    {EmptyDB} \cup { CreateComponentOp(EmptyDB, r) :
                       r \in { q \in Requests :
                                 ForeignKeyHolds(EmptyDB, NormalizeParentID(q.ParentID)) } }

\* A main that goes on to serve after InitGlobalCache failed.
AfterInitError_Continue(m) ==
    [m EXCEPT !.pc = "main34", !.inits = @ + 1, !.initErr = TRUE]

\* Lines 24-29 when InitGlobalCache returned an error: log.Fatalf.
AfterInitError(m) ==
    [m EXCEPT !.pc = "exited", !.inits = @ + 1, !.initErr = TRUE]

\* Line 18, db.InitDB() returns: the connection is open.
InitDB ==
    /\ main.pc = "main18"
    /\ db' \in StartTables
    /\ main' = [main EXCEPT !.pc = "main24"]
    /\ UNCHANGED <<cacheVars, GlobalComponentCache, concVars>>

\* Line 18, db.InitDB() ends the process (log.Fatal in InitDB).
InitDBFatal ==
    /\ main.pc = "main18"
    /\ main' = [main EXCEPT !.pc = "exited"]
    /\ UNCHANGED <<cacheVars, GlobalComponentCache, concVars, db>>

\* Lines 23-30, cache.InitGlobalCache(cs) returns nil: the cache holds what
\* ListComponents returned.
mainInitGlobalCache ==
    /\ main.pc = "main24"
    /\ \E snapshot \in ListComponentsOf(db) :
           Becomes(InitGlobalCacheCall(Cache, snapshot, FALSE))
    /\ GlobalComponentCache' = "cache"
    /\ main' = [main EXCEPT !.pc = "main34", !.inits = @ + 1]
    /\ UNCHANGED <<concVars, db>>

\* Lines 23-29, cache.InitGlobalCache(cs) returns an error.
mainInitGlobalCacheFatal ==
    /\ main.pc = "main24"
    /\ Becomes(InitGlobalCacheErrOp(Cache))
    /\ GlobalComponentCache' = "cache"
    /\ main' = AfterInitError(main)
    /\ UNCHANGED <<concVars, db>>

\* Lines 34-51: the routes are registered and ListenAndServe listens.
ListenAndServe ==
    /\ main.pc = "main34"
    /\ main' = [main EXCEPT !.pc = "main51"]
    /\ UNCHANGED <<cacheVars, GlobalComponentCache, concVars, db>>

\* Lines 51-53: ListenAndServe returns an error, at once or later.
ListenAndServeFatal ==
    /\ main.pc \in {"main34", "main51"}
    /\ main' = [main EXCEPT !.pc = "exited"]
    /\ UNCHANGED <<cacheVars, GlobalComponentCache, concVars, db>>

\* The server answers a request on /components/: a write of storage or a
\* read of it.
ComponentsHandler ==
    /\ main.pc = "main51"
    /\ main.served < MaxServed
    /\ main' = [main EXCEPT !.served = @ + 1]
    /\ \/ \E r \in Requests :
              /\ db.seq < MaxID
              /\ ForeignKeyHolds(db, NormalizeParentID(r.ParentID))
              /\ db' = CreateComponentOp(db, r)
       \/ \E id \in DOMAIN db.rows, r \in Requests :
              /\ ForeignKeyHolds(db, NormalizeParentID(r.ParentID))
              /\ db' = UpdateComponentOp(db, id, r)
       \/ \E id \in DOMAIN db.rows : db' = DeleteComponentOp(db, id)
       \/ db' = db
    /\ UNCHANGED <<cacheVars, GlobalComponentCache, concVars>>

NextMain ==
    \/ InitDB
    \/ InitDBFatal
    \/ mainInitGlobalCache
    \/ mainInitGlobalCacheFatal
    \/ ListenAndServe
    \/ ListenAndServeFatal
    \/ ComponentsHandler

SpecMain == Init /\ [][NextMain]_vars

NilComponent == [isNil |-> TRUE]

\* A Set that goes on to its Lock whatever it was passed.
AfterNilCheck_NoCheck(component) == "lock"

\* Lines 80-82: where Set goes after `if component == nil { return }`.
AfterNilCheck(component) ==
    IF component = NilComponent THEN "idle" ELSE "lock"

\* A goroutine calls Set(nil).
CallSetNil(p) ==
    /\ pc[p] = "idle"
    /\ GlobalComponentCache # "nil"
    /\ \A q \in Procs : call[q].op # "InitGlobalCache"
    /\ pc' = [pc EXCEPT ![p] = "set80"]
    /\ call' = [call EXCEPT ![p] = [op |-> "Set", component |-> NilComponent]]
    /\ UNCHANGED <<cacheVars, GlobalComponentCache, mu, serial, db, main>>

\* Lines 80-82 of the call of p.
SetNilCheck(p) ==
    /\ pc[p] = "set80"
    /\ Goes(p, AfterNilCheck(call[p].component))
    /\ UNCHANGED <<cacheVars, GlobalComponentCache, mu, serial, db, main>>

NextSetNil ==
    \/ \E p \in Procs, k \in Calls : CallServing(p, k)
    \/ \E p \in Procs : InitReplace(p)
    \/ \E p \in Procs : LockServing(p)
    \/ \E p \in Procs : InitList(p)
    \/ \E p \in Procs : InitAssign(p)
    \/ \E p \in Procs : RLock(p)
    \/ \E p \in Procs : Running(p)
    \/ \E p \in Procs : CallSetNil(p)
    \/ \E p \in Procs : SetNilCheck(p)

SpecSetNil == Init /\ [][NextSetNil]_vars

\* C39: Set(nil) does nothing.  A call of Set with a nil component is never
\* at the Lock nor past it and never holds mu; it can return whoever holds
\* mu; and the step by which it returns leaves componentsByID,
\* allComponents, every bucket and mu as they were.
C39_SetNilIsNoOp ==
    /\ [](\A p \in Procs :
              (call[p].op = "Set" /\ call[p].component = NilComponent)
                  => /\ pc[p] = "set80"
                     /\ mu.writer # p
                     /\ ENABLED SetNilCheck(p))
    /\ [][\A p \in Procs :
              (pc[p] = "set80" /\ pc'[p] # "set80")
                  => /\ pc'[p] = "idle"
                     /\ UNCHANGED <<cacheVars, mu>>]_vars

\* A goroutine is in Set(nil) while another holds the write lock in a Set
\* of its own, and the cache holds a component.
C39_Witness ==
    \E p, q \in Procs :
        /\ pc[p] = "set80"
        /\ call[p].component = NilComponent
        /\ mu.writer = q
        /\ pc[q] \in InsideWrite
        /\ componentsByID # <<>>
====
